---- MODULE Spec2Model ----
(***************************************************************************)
(* UnityMoverTool (src/unity3d_agent/server.py): a request/response        *)
(* correlation layer over MQTT.  initiate_object_move_3d publishes a move  *)
(* command carrying a fresh request id; the MQTT loop thread delivers      *)
(* feedback messages to _on_message, which stores them in completed_moves  *)
(* under completed_moves_lock; check_move_status consumes an entry.        *)
(***************************************************************************)
EXTENDS Integers, Sequences, FiniteSets, TLC

\* ------------------------------------------------------------------ bounds
\* how many distinct values uuid4 can return in a run
NumIds == 2
\* how many threads call check_move_status concurrently
NumPollers == 2
\* how many completions are recorded in a run
MaxFeedback == 2

\* ------------------------------------------------------- Python values
PyStr(s) == [t |-> "str", v |-> s]
PyNone == [t |-> "NoneType", v |-> ""]
PyInt(n) == [t |-> "int", v |-> n]
PyFloat(n) == [t |-> "float", v |-> n]
PyBool(n) == [t |-> "bool", v |-> n]
PyList(s) == [t |-> "list", v |-> s]
PyTuple(s) == [t |-> "tuple", v |-> s]
PyDict(d) == [t |-> "dict", v |-> d]

\* `is not None` in place of truth
TruthyNotNone(x) == x.t # "NoneType"

\* bool(x): the truth value Python's `if x:` tests
Truthy(x) ==
    CASE x.t = "NoneType" -> FALSE
      [] x.t = "str" -> x.v # ""
      [] x.t \in {"int", "float", "bool"} -> x.v # 0
      [] x.t \in {"list", "tuple"} -> x.v # <<>>
      [] x.t = "dict" -> DOMAIN x.v # {}

\* whether x can be a dict key (lists and dicts raise TypeError: unhashable)
Hashable(x) == x.t \notin {"list", "dict"}

\* d.get ignoring the key: some entry of d
DictGetAny(d, k) == IF DOMAIN d = {} THEN PyNone ELSE d[CHOOSE j \in DOMAIN d : TRUE]

\* d.get(k) on a dict d (a function from key strings to Python values)
DictGet(d, k) == IF k \in DOMAIN d THEN d[k] ELSE PyNone

\* {**a, **b}: b's keys override a's
DictMerge(a, b) ==
    [k \in DOMAIN a \cup DOMAIN b |-> IF k \in DOMAIN b THEN b[k] ELSE a[k]]

\* d.setdefault(k, x): the first value stored under k is kept
DictSetDefault(d, k, x) == [j \in DOMAIN d \cup {k} |-> IF j \in DOMAIN d THEN d[j] ELSE x]

\* d[k] = x
DictSet(d, k, x) == [j \in DOMAIN d \cup {k} |-> IF j = k THEN x ELSE d[j]]

\* d.clear(): a delete that empties the dict
DictDelAll(d, k) == <<>>

\* the entry is left in place
DictDelKeeps(d, k) == d

\* del d[k]
DictDel(d, k) == [j \in DOMAIN d \ {k} |-> d[j]]

\* isinstance(x, (int, float)); bool is a subclass of int
IsNumber(x) == x.t \in {"int", "float", "bool"}

\* ------------------------------------------------------------- constants
command_topic == "unity/commands/move"
feedback_topic == "unity/feedback/move_complete"

\* the strings str(uuid.uuid4()) can return
Uuids == {ToString(i) : i \in 1..NumIds}

Pollers == 1..NumPollers
MqttThread == 0
Free == -1

\* ------------------------------------------------------------------ state
VARIABLES
    connected,        \* whether client.connect succeeded in __init__
    completed_moves,  \* self.completed_moves: request_id -> feedback payload
    lock,             \* holder of self.completed_moves_lock, or Free
    mqtt,             \* the MQTT loop thread running _on_message
    poll,             \* per caller thread: its check_move_status activation
    result,           \* per caller thread: what its last check_move_status returned
    generated,        \* the values uuid4 has returned so far
    published,        \* command payloads the broker accepted
    call,             \* the latest initiate_object_move_3d call: id minted, publish outcome
    init_result,      \* what the latest initiate_object_move_3d returned
    inserted,         \* per request id: how many times _on_message stored a record
    returned          \* per request id: how many times check_move_status returned a record

vars == <<connected, completed_moves, lock, mqtt, poll, result,
          generated, published, call, init_result, inserted, returned>>

storeVars == <<completed_moves, lock>>
mqttVars == <<mqtt, inserted>>
pollVars == <<poll, result, returned>>
initVars == <<generated, published, call, init_result>>

\* ------------------------------------------------- inbound MQTT messages
\* JSON objects a feedback message can carry
FeedbackObjects ==
    LET plain == [final_position |-> PyStr("[0,5,0]")]
        failed == [final_position |-> PyStr("[1,1,1]"), status |-> PyStr("failed")]
        keyed == {DictSet(b, "request_id", PyStr(u)) : b \in {plain, failed}, u \in Uuids}
        unkeyed == {DictSet(plain, "request_id", r) :
                        r \in {PyNone, PyStr(""), PyInt(0), PyList(<<PyStr("1")>>)}}
    IN  keyed \cup unkeyed \cup {plain}

\* msg.payload: bytes that are not UTF-8, text that is not JSON, or a JSON document
Payloads ==
    {[enc |-> "not-utf8", doc |-> PyNone], [enc |-> "not-json", doc |-> PyNone],
     [enc |-> "json", doc |-> PyList(<<PyInt(1)>>)]}
    \cup {[enc |-> "json", doc |-> PyDict(o)] : o \in FeedbackObjects}

Messages ==
    {[topic |-> feedback_topic, payload |-> p] : p \in Payloads}
    \cup {[topic |-> "unity/other", payload |-> [enc |-> "not-json", doc |-> PyNone]]}

NoMsg == [topic |-> "", payload |-> [enc |-> "none", doc |-> PyNone]]

\* json.loads(msg.payload.decode('utf-8')): the exception raised, or the value
json_loads(p) ==
    CASE p.enc = "not-utf8" -> [exc |-> "UnicodeDecodeError", val |-> PyNone]
      [] p.enc = "not-json" -> [exc |-> "JSONDecodeError", val |-> PyNone]
      [] OTHER -> [exc |-> "", val |-> p.doc]

\* the loop thread between callbacks; log is what the latest _on_message call printed
MqttIdle == [pc |-> "idle", msg |-> NoMsg, payload |-> PyNone, request_id |-> PyNone,
             log |-> ""]

\* the loop thread after _on_message returned, having printed `line`
Returned(line) == [MqttIdle EXCEPT !.log = line]

\* ------------------------------------------------------------------ Init
PollIdle == [pc |-> "idle", request_id |-> "", feedback |-> PyNone]
NoResult == [status |-> PyStr("")]
NoCall == [request_id |-> "", publish |-> "none", payload |-> PyNone]

\* __init__ and _connect_mqtt: connect may raise (swallowed, loop never started)
Init ==
    /\ connected \in BOOLEAN
    /\ completed_moves = <<>>
    /\ lock = Free
    /\ mqtt = IF connected THEN MqttIdle ELSE [MqttIdle EXCEPT !.pc = "not-started"]
    /\ poll = [t \in Pollers |-> PollIdle]
    /\ result = [t \in Pollers |-> NoResult]
    /\ generated = {}
    /\ published = {}
    /\ call = NoCall
    /\ init_result = NoResult
    /\ inserted = [u \in Uuids |-> 0]
    /\ returned = [u \in Uuids |-> 0]

\* ------------------------------------------------- the MQTT loop thread
\* an exception leaves the callback: the loop thread logs it and goes on, or dies
Raised == {[MqttIdle EXCEPT !.pc = n, !.log = "exception"] : n \in {"idle", "dead"}}

\* the number of records _on_message has stored so far
RECURSIVE Sum(_, _)
Sum(f, S) == IF S = {} THEN 0 ELSE LET u == CHOOSE x \in S : TRUE IN f[u] + Sum(f, S \ {u})
Recorded == Sum(inserted, Uuids)

\* the loop thread calls _on_message(msg), which runs up to the lock: topic test,
\* decode, payload.get, `if request_id`, and the prints of the branches that return
on_message(msg) ==
    /\ mqtt.pc = "idle"
    /\ Recorded < MaxFeedback
    /\ LET loaded == json_loads(msg.payload)
           payload == loaded.val
           request_id == DictGet(payload.v, "request_id")
       IN  IF msg.topic # feedback_topic
             THEN mqtt' = Returned("unhandled topic")
           ELSE IF loaded.exc = "JSONDecodeError"
             THEN mqtt' = Returned("failed to decode")
           ELSE IF loaded.exc # "" \/ payload.t # "dict"
             THEN mqtt' \in Raised
           ELSE IF Truthy(request_id)
             THEN mqtt' = [MqttIdle EXCEPT !.pc = "acquire", !.msg = msg,
                                           !.payload = payload,
                                           !.request_id = request_id]
           ELSE mqtt' = Returned("without request_id")
    /\ UNCHANGED <<connected, storeVars, inserted, pollVars, initVars>>

\* an acquire that also waits until the store has been emptied
LockFreeAndDrained == lock = Free /\ completed_moves = <<>>

\* an acquire that never waits
LockIgnored == TRUE

\* threading.Lock.acquire: blocks until the lock is free
LockFree == lock = Free

\* `with self.completed_moves_lock:` entered by the loop thread
on_message_acquire ==
    /\ mqtt.pc = "acquire"
    /\ LockFree
    /\ lock' = MqttThread
    /\ mqtt' = [mqtt EXCEPT !.pc = "insert"]
    /\ UNCHANGED <<connected, completed_moves, inserted, pollVars, initVars>>

\* the insert step prints its line itself, before the `with` block's exit
InsertedAndPrinted == Returned("received feedback")

\* the loop thread after the `with` block, before the print of line 65
Inserted == [MqttIdle EXCEPT !.pc = "print"]

\* self.completed_moves[request_id] = payload, then the `with` block's exit
on_message_insert ==
    /\ mqtt.pc = "insert"
    /\ lock' = Free
    /\ IF Hashable(mqtt.request_id)
         THEN /\ completed_moves' = DictSet(completed_moves, mqtt.request_id, mqtt.payload)
              /\ mqtt' = Inserted
              /\ inserted' = [u \in Uuids |->
                                IF mqtt.request_id = PyStr(u) THEN inserted[u] + 1
                                                              ELSE inserted[u]]
         ELSE /\ mqtt' \in Raised
              /\ UNCHANGED <<completed_moves, inserted>>
    /\ UNCHANGED <<connected, pollVars, initVars>>

\* print(f"Received move completion feedback ...") and return
on_message_print ==
    /\ mqtt.pc = "print"
    /\ mqtt' = Returned("received feedback")
    /\ UNCHANGED <<connected, storeVars, inserted, pollVars, initVars>>

\* ------------------------------------------------------ check_move_status
\* caller t calls check_move_status(request_id): it enters
\* `with self.completed_moves_lock:` once the lock is free (a call blocked on the
\* lock has done nothing yet) and reads
\* feedback = self.completed_moves.get(request_id)
check_move_status_get(t, request_id) ==
    /\ poll[t].pc = "idle"
    /\ LockFree
    /\ lock' = t
    /\ poll' = [poll EXCEPT ![t] = [pc |-> "if", request_id |-> request_id,
                                    feedback |-> DictGet(completed_moves, PyStr(request_id))]]
    /\ result' = [result EXCEPT ![t] = NoResult]
    /\ UNCHANGED <<connected, completed_moves, mqttVars, returned, initVars>>

\* {"status": "completed", **feedback}
CompletedResult(feedback) == DictMerge([status |-> PyStr("completed")], feedback.v)

\* a result that tells a never-issued id ("not_found") from a pending one
PendingOrNotFound(request_id) ==
    IF request_id \in generated
      THEN [status |-> PyStr("in_progress"),
            message |-> PyStr("Move for request_id " \o request_id \o " not yet completed or found.")]
      ELSE [status |-> PyStr("not_found"),
            message |-> PyStr("Move for request_id " \o request_id \o " not yet completed or found.")]

\* {"status": "in_progress", "message": f"Move for request_id {request_id} not yet ..."}
PendingResult(request_id) ==
    [status |-> PyStr("in_progress"),
     message |-> PyStr("Move for request_id " \o request_id \o " not yet completed or found.")]

\* `if feedback:` del and return completed, else return in_progress; the `with` exit
check_move_status_return(t) ==
    /\ poll[t].pc = "if"
    /\ LET request_id == poll[t].request_id
           feedback == poll[t].feedback
       IN  IF Truthy(feedback)
             THEN /\ completed_moves' = DictDel(completed_moves, PyStr(request_id))
                  /\ result' = [result EXCEPT ![t] = CompletedResult(feedback)]
                  /\ returned' = [returned EXCEPT ![request_id] = @ + 1]
             ELSE /\ result' = [result EXCEPT ![t] = PendingResult(request_id)]
                  /\ UNCHANGED <<completed_moves, returned>>
    /\ lock' = Free
    /\ poll' = [poll EXCEPT ![t] = PollIdle]
    /\ UNCHANGED <<connected, mqttVars, initVars>>

\* ------------------------------------------------ initiate_object_move_3d
\* argument values callers pass
ObjectNames == {PyStr("Cube")}
Positions ==
    {PyList(<<PyFloat(0), PyFloat(5), PyFloat(0)>>),
     PyList(<<PyFloat(0), PyFloat(5)>>),
     PyList(<<PyFloat(0), PyFloat(5), PyFloat(0), PyFloat(1)>>),
     PyList(<<PyFloat(0), PyStr("5"), PyFloat(0)>>),
     PyTuple(<<PyFloat(0), PyFloat(5), PyFloat(0)>>)}
Durations == {PyFloat(3), PyInt(0), PyFloat(-1), PyStr("3")}

\* the (target_position, duration) pairs callers pass: at most one of the two is
\* invalid, or both are
Arguments ==
    {a \in Positions \X Durations :
        \/ a[1] = PyList(<<PyFloat(0), PyFloat(5), PyFloat(0)>>)
        \/ a[2] = PyFloat(3)
        \/ a = <<PyTuple(<<PyFloat(0), PyFloat(5), PyFloat(0)>>), PyInt(0)>>}

\* isinstance(target_position, list) and len(...) == 3 and all(isinstance(coord, (int, float)) ...)
ValidPosition(target_position) ==
    /\ target_position.t = "list"
    /\ Len(target_position.v) = 3
    /\ \A i \in 1..Len(target_position.v) : IsNumber(target_position.v[i])

\* `>= 0` in place of `> 0`
ValidDurationNonNegative(duration) == IsNumber(duration) /\ duration.v >= 0

\* isinstance(duration, (int, float)) and duration > 0
ValidDuration(duration) == IsNumber(duration) /\ duration.v > 0

\* an id generator that can repeat a value
uuid4Repeating == Uuids

\* str(uuid.uuid4()): a value not returned before (collisions of 122 random bits
\* are not modelled)
uuid4 == Uuids \ generated

\* self.client.publish(...): accepted by a connected client; on a client that never
\* connected it returns an error code without raising; or it raises
PublishOutcomes == IF connected THEN {"sent", "raised"} ELSE {"no-conn", "raised"}

InvalidPositionResult ==
    [status |-> PyStr("error"),
     message |-> PyStr("Invalid target_position. Must be a list of 3 numbers.")]
InvalidDurationResult ==
    [status |-> PyStr("error"),
     message |-> PyStr("Invalid duration. Must be a positive number.")]
PublishFailedResult ==
    [status |-> PyStr("error"), message |-> PyStr("Failed to send MQTT message")]
SuccessResult(object_name, target_position, request_id) ==
    [status |-> PyStr("success"),
     message |-> PyStr("Move command initiated"),
     object_name |-> object_name,
     requested_target_position |-> target_position,
     request_id |-> PyStr(request_id)]

\* the command payload built at lines 95-100
CommandPayload(object_name, target_position, duration, request_id) ==
    [object_name |-> object_name, target_position |-> target_position,
     duration |-> duration, request_id |-> PyStr(request_id)]

\* an entry is created for the minted id when the command is initiated
InitiateRecordsPending ==
    /\ completed_moves' =
          IF call'.request_id = "" THEN completed_moves
          ELSE DictSet(completed_moves, PyStr(call'.request_id),
                       PyDict([request_id |-> PyStr(call'.request_id)]))
    /\ UNCHANGED <<connected, lock, mqttVars, pollVars>>

\* what initiate_object_move_3d leaves alone: the store, its lock, every other thread
InitiateFrame == UNCHANGED <<connected, storeVars, mqttVars, pollVars>>

initiate_object_move_3d(object_name, target_position, duration) ==
    /\ IF ~ValidPosition(target_position)
         THEN /\ init_result' = InvalidPositionResult
              /\ call' = NoCall
              /\ UNCHANGED <<generated, published>>
       ELSE IF ~ValidDuration(duration)
         THEN /\ init_result' = InvalidDurationResult
              /\ call' = NoCall
              /\ UNCHANGED <<generated, published>>
       ELSE \E request_id \in uuid4, outcome \in PublishOutcomes :
              LET payload == CommandPayload(object_name, target_position, duration, request_id)
              IN  /\ generated' = generated \cup {request_id}
                  /\ call' = [request_id |-> request_id, publish |-> outcome,
                              payload |-> PyDict(payload)]
                  /\ published' = IF outcome = "sent" THEN published \cup {payload}
                                                      ELSE published
                  /\ init_result' =
                        IF outcome = "raised"
                          THEN PublishFailedResult
                          ELSE SuccessResult(object_name, target_position, request_id)
    /\ InitiateFrame

\* ------------------------------------------------------------------ Next
\* the loop thread, delivering messages drawn from M
MqttNext(M) ==
    \/ \E msg \in M : on_message(msg)
    \/ on_message_acquire
    \/ on_message_insert
    \/ on_message_print

\* the caller threads T, each polling any request id
PollNext(T) ==
    \/ \E t \in T, request_id \in Uuids : check_move_status_get(t, request_id)
    \/ \E t \in T : check_move_status_return(t)

InitiateNext ==
    \E o \in ObjectNames, a \in Arguments :
        initiate_object_move_3d(o, a[1], a[2])

\* the whole tool
Next == MqttNext(Messages) \/ PollNext(Pollers) \/ InitiateNext

Spec == Init /\ [][Next]_vars

\* the correlation store: feedback delivery against concurrent pollers, while no
\* caller initiates a move (initiate_object_move_3d touches none of their state)
NextStore == MqttNext(Messages) \/ PollNext(Pollers)

SpecStore == Init /\ [][NextStore]_vars

\* one caller keeps polling "1" and the other callers poll the other ids, against
\* any feedback traffic
PollIds(t) == IF t = 1 THEN {"1"} ELSE Uuids \ {"1"}

NextKeepPolling ==
    \/ MqttNext(Messages)
    \/ \E t \in Pollers : \E request_id \in PollIds(t) : check_move_status_get(t, request_id)
    \/ \E t \in Pollers : check_move_status_return(t)

\* fair scheduling: a thread that can take its next step takes it (WF), and a
\* thread waiting for a lock that is free again and again gets it (SF); caller 1
\* calls check_move_status("1") again and again; nothing obliges the other callers
\* to poll or messages to arrive
FairKeepPolling ==
    /\ SF_vars(on_message_acquire)
    /\ WF_vars(on_message_insert)
    /\ WF_vars(on_message_print)
    /\ \A t \in Pollers : WF_vars(check_move_status_return(t))
    /\ SF_vars(check_move_status_get(1, "1"))

SpecKeepPolling == Init /\ [][NextKeepPolling]_vars /\ FairKeepPolling

\* the command initiator, with one poller, and Unity answering the commands it
\* received with well-formed feedback
KeyedMessages ==
    {m \in Messages : /\ m.topic = feedback_topic
                      /\ m.payload.doc.t = "dict"
                      /\ Truthy(DictGet(m.payload.doc.v, "request_id"))
                      /\ Hashable(DictGet(m.payload.doc.v, "request_id"))
                      /\ "status" \notin DOMAIN m.payload.doc.v}

\* the feedback messages for the request ids of the published commands
Answers ==
    {m \in KeyedMessages :
        /\ "request_id" \in DOMAIN m.payload.doc.v
        /\ \E c \in published : c["request_id"] = m.payload.doc.v["request_id"]}

NextInitiate == InitiateNext \/ MqttNext(Answers) \/ PollNext({1})

SpecInitiate == Init /\ [][NextInitiate]_vars

\* ------------------------------------------------------- claim vocabulary
Key(id) == PyStr(id)
InStore(id) == Key(id) \in DOMAIN completed_moves
StoredCount(id) == IF InStore(id) THEN 1 ELSE 0

\* the step in which caller t's check_move_status returns
Returns(t) == poll[t].pc = "if" /\ poll'[t].pc = "idle"

\* res is the in_progress result: a status and a message, nothing of a record
IsPending(res) == DOMAIN res = {"status", "message"} /\ res.status = PyStr("in_progress")
IsPendingFor(res, id) ==
    /\ IsPending(res)
    /\ res.message = PyStr("Move for request_id " \o id \o " not yet completed or found.")

\* res carries every field of record R with R's value
Carries(res, R) == \A k \in DOMAIN R.v : k \in DOMAIN res /\ res[k] = R.v[k]

\* res is a returned record of request id
CompletedFor(res, id) == "request_id" \in DOMAIN res /\ res["request_id"] = PyStr(id)

\* the callers that hold the record of id: read under the lock, or returned
Observers(id) ==
    {t \in Pollers :
        \/ poll[t].pc = "if" /\ poll[t].request_id = id /\ poll[t].feedback # PyNone
        \/ CompletedFor(result[t], id)}

\* ------------------------------------------------------------------ C1
\* C1: a check_move_status(id) that runs while a record R is stored for id returns
\* R's fields (not the in_progress result), removes the entry and counts as the one
\* return of it; a check_move_status(id) that runs while no entry is stored returns
\* in_progress and leaves the store alone; and an entry appears for id only by a
\* new completion being recorded.
C1_ConsumedByFirstPoll ==
    [][/\ \A t \in Pollers : Returns(t) =>
            LET id == poll[t].request_id
            IN  IF InStore(id)
                  THEN /\ Carries(result'[t], completed_moves[Key(id)])
                       /\ ~IsPending(result'[t])
                       /\ Key(id) \notin DOMAIN completed_moves'
                       /\ returned'[id] = returned[id] + 1
                  ELSE /\ IsPendingFor(result'[t], id)
                       /\ completed_moves' = completed_moves
                       /\ returned' = returned
       /\ \A id \in Uuids :
            (~InStore(id) /\ Key(id) \in DOMAIN completed_moves')
                => inserted'[id] = inserted[id] + 1]_vars

\* a caller holds the lock and finds nothing for "1" after another caller consumed
\* the one record stored for "1"
C1_Witness ==
    /\ inserted["1"] = 1 /\ returned["1"] = 1
    /\ CompletedFor(result[1], "1")
    /\ poll[2].pc = "if" /\ poll[2].request_id = "1" /\ poll[2].feedback = PyNone

\* ------------------------------------------------------------------ C2
\* C2: when exactly one completion has been recorded for id, at most one caller
\* ever holds its record (read under the lock or returned), the record is either
\* still stored or has been returned exactly once, and every other caller's result
\* is the in_progress result or a record of another id.
C2_ExactlyOneObserver ==
    \A id \in Uuids : inserted[id] = 1 =>
        /\ Cardinality(Observers(id)) <= 1
        /\ returned[id] + StoredCount(id) = 1
        /\ \A t \in Pollers \ Observers(id) :
              \/ result[t] = NoResult
              \/ IsPending(result[t])
              \/ \E j \in Uuids \ {id} : CompletedFor(result[t], j)

\* both callers polled "1", whose one completion was recorded: caller 2 was given
\* the record and caller 1 the in_progress result
C2_Witness ==
    /\ inserted["1"] = 1 /\ ~InStore("1")
    /\ CompletedFor(result[2], "1")
    /\ IsPendingFor(result[1], "1")
    /\ \A t \in Pollers : poll[t].pc = "idle"

\* ------------------------------------------------------------------ C3
\* C3 as stated: for any identifier at most one Completion Record is ever returned.
C3_AtMostOneRecordEver == \A id \in Uuids : returned[id] <= 1

\* C3 amended: the records returned for an identifier, plus the one still stored,
\* never outnumber the completions recorded for it (each recorded record is
\* returned at most once; a redelivered completion can be returned again), and a
\* caller under the lock finds a record exactly when one is stored now, whatever
\* was consumed before.
C3_ReturnedAtMostRecorded ==
    /\ \A id \in Uuids : returned[id] + StoredCount(id) <= inserted[id]
    /\ \A t \in Pollers : poll[t].pc = "if" =>
          ((poll[t].feedback # PyNone) <=> InStore(poll[t].request_id))

\* two records were recorded for "1" and each was returned once
C3_Witness == returned["1"] = 2 /\ inserted["1"] = 2 /\ ~InStore("1")

\* ------------------------------------------------------------------ C4
\* C4: a check_move_status(id) that returns while no completion has ever been
\* recorded for id, whether or not id was minted by initiate_object_move_3d,
\* returns the in_progress result for id and leaves the store unchanged.
C4_NeverRecordedIsPending ==
    [][\A t \in Pollers :
          (Returns(t) /\ inserted[poll[t].request_id] = 0)
              => /\ IsPendingFor(result'[t], poll[t].request_id)
                 /\ completed_moves' = completed_moves]_vars

\* "1" was minted and never completed; its poll returned in_progress although a
\* record of "2" is stored
C4_Witness ==
    /\ "1" \in generated /\ inserted["1"] = 0
    /\ IsPendingFor(result[1], "1")
    /\ InStore("2")

\* ------------------------------------------------------------------ C5
\* a feedback message that is not decodable, is no JSON object, or whose request_id
\* is absent, null or empty
Malformed(msg) ==
    /\ msg.topic = feedback_topic
    /\ \/ msg.payload.enc # "json"
       \/ msg.payload.doc.t # "dict"
       \/ "request_id" \notin DOMAIN msg.payload.doc.v
       \/ msg.payload.doc.v["request_id"] \in {PyNone, PyStr("")}

\* C5: _on_message called with a malformed feedback message ends without reaching
\* the store (completed_moves unchanged, nothing inserted), and every stored entry
\* and every returned record carries a request_id that is neither null nor empty,
\* the one it is keyed by: no content of a malformed message is ever stored or
\* returned.
C5_MalformedDropped ==
    /\ [](/\ \A k \in DOMAIN completed_moves :
                /\ k \notin {PyNone, PyStr("")}
                /\ "request_id" \in DOMAIN completed_moves[k].v
                /\ completed_moves[k].v["request_id"] = k
          /\ \A t \in Pollers :
                result[t] = NoResult \/ IsPending(result[t])
                    \/ \E id \in Uuids : CompletedFor(result[t], id))
    /\ [][\A msg \in Messages :
            (Malformed(msg) /\ on_message(msg))
                => /\ mqtt'.pc \in {"idle", "dead"}
                   /\ completed_moves' = completed_moves
                   /\ inserted' = inserted]_vars

\* a feedback message without usable request_id was handled while a record was
\* stored: the store still holds exactly that record
C5_Witness ==
    /\ mqtt.pc = "idle" /\ mqtt.log = "without request_id"
    /\ Recorded = 1 /\ InStore("1")

\* ------------------------------------------------------------------ C7
\* C7: whenever check_move_status(id) finds an entry, the result has status
\* "completed" and carries every field of the stored record with its stored value;
\* whenever it finds none, the status is "in_progress" or "not_found" and the result
\* has a message.
C7_CompletedCarriesRecord ==
    [][\A t \in Pollers : Returns(t) =>
          LET id == poll[t].request_id
          IN  IF InStore(id)
                THEN /\ result'[t]["status"] = PyStr("completed")
                     /\ Carries(result'[t], completed_moves[Key(id)])
                ELSE /\ result'[t]["status"] \in {PyStr("in_progress"), PyStr("not_found")}
                     /\ "message" \in DOMAIN result'[t]]_vars

\* ------------------------------------------------------------------ C6
\* arguments the validation must reject: a target_position that is no list of
\* length 3 or has a component that is no number, a duration that is no number or
\* is not positive
InvalidArguments(target_position, duration) ==
    \/ target_position.t # "list"
    \/ Len(target_position.v) # 3
    \/ \E i \in 1..Len(target_position.v) :
          target_position.v[i].t \notin {"int", "float", "bool"}
    \/ duration.t \notin {"int", "float", "bool"}
    \/ duration.v <= 0

\* C6: initiate_object_move_3d with invalid arguments returns a validation error
\* without a request_id, calls publish for nothing, draws no uuid and leaves the
\* store unchanged.
C6_InvalidArgumentsRejected ==
    [][\A o \in ObjectNames, a \in Arguments :
          (initiate_object_move_3d(o, a[1], a[2]) /\ InvalidArguments(a[1], a[2]))
              => /\ init_result'["status"] = PyStr("error")
                 /\ init_result' \in {InvalidPositionResult, InvalidDurationResult}
                 /\ "request_id" \notin DOMAIN init_result'
                 /\ call' = NoCall
                 /\ published' = published
                 /\ generated' = generated
                 /\ completed_moves' = completed_moves]_vars

\* a call was rejected for its duration after an earlier command was published and
\* while a record is stored: both are still there
C6_Witness ==
    /\ init_result = InvalidDurationResult
    /\ call = NoCall
    /\ Cardinality(published) = 1 /\ Cardinality(generated) = 1
    /\ InStore("1")

\* ------------------------------------------------------------------ C8
\* C8: every initiate_object_move_3d call that returns success returns a
\* request_id that no earlier call drew, and the command payload handed to publish
\* carries that same request_id (uuid4 taken as never repeating a value).
C8_FreshRequestId ==
    [][\A o \in ObjectNames, a \in Arguments :
          (initiate_object_move_3d(o, a[1], a[2]) /\ init_result'["status"] = PyStr("success"))
              => /\ init_result'["request_id"].v \notin generated
                 /\ \A c \in published : c["request_id"] # init_result'["request_id"]
                 /\ call'.payload.v["request_id"] = init_result'["request_id"]
                 /\ call'.publish = "sent" => call'.payload.v \in published']_vars

\* two calls succeeded, with two different request ids in the published commands
C8_Witness ==
    /\ init_result["status"] = PyStr("success")
    /\ Cardinality(published) = 2
    /\ Cardinality({c["request_id"] : c \in published}) = 2

\* ------------------------------------------------------------------ C9
\* C9: if the publication of the command failed, initiate_object_move_3d returned
\* status "error", never "success".
C9_PublishFailureSurfaced ==
    call.publish \in {"no-conn", "raised"} => init_result["status"] = PyStr("error")

\* ------------------------------------------------------------------ C10
\* C10: initiate_object_move_3d never changes the store, its lock or the count of
\* recorded completions; a call that hands the command to publish and returns
\* success returns the request_id R of that command; and a check_move_status(R)
\* that returns while no feedback for R has been recorded returns in_progress.
C10_InitiationCreatesNoEntry ==
    [][/\ \A o \in ObjectNames, a \in Arguments :
            initiate_object_move_3d(o, a[1], a[2])
                => /\ completed_moves' = completed_moves
                   /\ lock' = lock
                   /\ inserted' = inserted
                   /\ init_result'["status"] = PyStr("success")
                        => /\ call'.publish # "raised"
                           /\ init_result'["request_id"] = PyStr(call'.request_id)
                           /\ call'.payload.v["request_id"] = PyStr(call'.request_id)
       /\ \A t \in Pollers :
            (Returns(t) /\ poll[t].request_id \in generated
                        /\ inserted[poll[t].request_id] = 0)
                => IsPendingFor(result'[t], poll[t].request_id)]_vars

\* the command for "1" was published and success returned; a caller polling "1"
\* holds the lock and found nothing, while the feedback for "1" waits for the lock
C10_Witness ==
    /\ init_result["status"] = PyStr("success")
    /\ init_result["request_id"] = PyStr("1")
    /\ call.publish = "sent"
    /\ inserted["1"] = 0
    /\ poll[1].pc = "if" /\ poll[1].request_id = "1" /\ poll[1].feedback = PyNone
    /\ mqtt.pc = "acquire" /\ mqtt.request_id = PyStr("1")

\* ------------------------------------------------------------------ C11
\* C11: in every reachable state, every key of completed_moves is an identifier
\* that initiate_object_move_3d minted earlier.
C11_KeysWereMinted ==
    \A k \in DOMAIN completed_moves : k.t = "str" /\ k.v \in generated

\* ------------------------------------------------------------------ C12
\* the three situations in which id has no entry
StillPending(id) == id \in generated /\ inserted[id] = 0 /\ ~InStore(id)
NeverIssued(id) == id \notin generated /\ ~InStore(id)
AlreadyConsumed(id) == returned[id] > 0 /\ ~InStore(id)

C13_RecordingOverwrites ==
    [][/\ (mqtt.pc = "insert" /\ mqtt'.pc = "print")
            => /\ DOMAIN completed_moves' = DOMAIN completed_moves \cup {mqtt.request_id}
               /\ completed_moves'[mqtt.request_id] = mqtt.payload
               /\ \A k \in DOMAIN completed_moves \ {mqtt.request_id} :
                     completed_moves'[k] = completed_moves[k]
       /\ \A t \in Pollers : Returns(t) =>
            LET id == poll[t].request_id
            IN  IF InStore(id)
                  THEN /\ Carries(result'[t], completed_moves[Key(id)])
                       /\ DOMAIN result'[t] = DOMAIN completed_moves[Key(id)].v \cup {"status"}
                       /\ Key(id) \notin DOMAIN completed_moves'
                  ELSE IsPendingFor(result'[t], id)]_vars

\* two completions were recorded for "1" and one check_move_status("1") consumed
\* an entry, leaving none: it ran after both inserts and returned the payload
\* delivered last; the next caller holds the lock and finds nothing
C13_Witness ==
    /\ inserted["1"] = 2 /\ returned["1"] = 1 /\ ~InStore("1")
    /\ CompletedFor(result[1], "1")
    /\ result[1]["final_position"] = PyStr("[1,1,1]")
    /\ poll[2].pc = "if" /\ poll[2].request_id = "1" /\ poll[2].feedback = PyNone

\* ------------------------------------------------------------------ C14
\* C14: in every step, an entry stored for id is still stored with the same payload
\* afterwards, unless the step is a check_move_status(id) returning, which removes
\* it (or the insert of a new completion for id itself, C13); so initiate calls,
\* deliveries for other ids and polls of other ids leave it alone. A
\* check_move_status that returns the in_progress result leaves the store as it was.
C14_EntriesPersist ==
    [][/\ \A id \in Uuids : InStore(id) =>
            \/ /\ Key(id) \in DOMAIN completed_moves'
               /\ completed_moves'[Key(id)] = completed_moves[Key(id)]
            \/ \E t \in Pollers :
                  /\ Returns(t) /\ poll[t].request_id = id
                  /\ Key(id) \notin DOMAIN completed_moves'
            \/ /\ mqtt.pc = "insert" /\ mqtt.request_id = Key(id)
               /\ Key(id) \in DOMAIN completed_moves'
       /\ \A t \in Pollers :
            (Returns(t) /\ IsPending(result'[t])) => completed_moves' = completed_moves]_vars

\* the entry of "2" is stored and was never returned, after a further command was
\* initiated and the completion of "1" was recorded and consumed by a poll of "1"
C14_Witness ==
    /\ InStore("2") /\ inserted["2"] = 1 /\ returned["2"] = 0
    /\ inserted["1"] = 1 /\ returned["1"] = 1 /\ ~InStore("1")
    /\ CompletedFor(result[1], "1")
    /\ Cardinality(generated) = 2

\* ------------------------------------------------------------------ C15
\* the threads inside a `with self.completed_moves_lock:` block
InSection ==
    {t \in Pollers : poll[t].pc = "if"} \cup (IF mqtt.pc = "insert" THEN {MqttThread} ELSE {})

\* C15: at no time are two threads inside a lock-guarded section, and the thread
\* inside is the one holding the lock; every step that changes completed_moves is
\* taken by the thread holding the lock, and a caller reads completed_moves only in
\* the step that gives it the lock.
C15_StoreAccessUnderLock ==
    /\ [](/\ Cardinality(InSection) <= 1
          /\ \A t \in InSection : lock = t
          /\ InSection = {} => lock = Free)
    /\ [][/\ completed_moves' # completed_moves
              => /\ lock \in InSection
                 /\ \/ lock = MqttThread /\ mqtt' # mqtt
                    \/ lock \in Pollers /\ poll'[lock] # poll[lock]
          /\ \A t \in Pollers :
                (poll[t].pc = "idle" /\ poll'[t].pc = "if") => lock = Free /\ lock' = t]_vars

\* a caller is inside check_move_status with an entry read under the lock while
\* the loop thread waits at the lock with the next completion
C15_Witness ==
    /\ lock = 1 /\ poll[1].pc = "if" /\ poll[1].feedback # PyNone
    /\ mqtt.pc = "acquire"
    /\ poll[2].pc = "idle"

\* ------------------------------------------------------------------ C16
\* C16: while each identifier has had at most one completion recorded, an id with
\* a recorded completion is either still stored and not yet returned, or no longer
\* stored and returned exactly once (to at most one caller's result); an id with no
\* recorded completion is neither stored nor returned.
C16_NeitherLostNorDuplicated ==
    (\A j \in Uuids : inserted[j] <= 1) =>
        \A id \in Uuids :
            LET holders == {t \in Pollers : CompletedFor(result[t], id)}
            IN  IF inserted[id] = 1
                  THEN \/ InStore(id) /\ returned[id] = 0 /\ holders = {}
                       \/ ~InStore(id) /\ returned[id] = 1 /\ Cardinality(holders) <= 1
                  ELSE ~InStore(id) /\ returned[id] = 0 /\ holders = {}

\* each of "1" and "2" had one completion recorded; two callers polled "1", one
\* was given its record and the other the in_progress result; "2" is still stored
C16_Witness ==
    /\ inserted["1"] = 1 /\ inserted["2"] = 1
    /\ returned["1"] = 1 /\ ~InStore("1")
    /\ CompletedFor(result[1], "1") /\ IsPendingFor(result[2], "1")
    /\ InStore("2") /\ returned["2"] = 0

\* ------------------------------------------------------------------ C18
\* C18: the loop thread holds the lock only between the acquire and the insertion:
\* the steps of _on_message that decode the payload or print a line start and end
\* with the lock not held by the loop thread, and the one step taken with the lock
\* held does the insertion, prints no line of _on_message and releases the lock.
C18_LockOnlyAroundInsert ==
    /\ [](lock = MqttThread => mqtt.pc = "insert")
    /\ [][/\ (mqtt.pc \in {"idle", "print"} /\ mqtt' # mqtt)
                => lock # MqttThread /\ lock' # MqttThread
          /\ (mqtt.pc = "acquire" /\ mqtt' # mqtt)
                => /\ lock = Free /\ lock' = MqttThread
                   /\ mqtt'.log = mqtt.log
                   /\ completed_moves' = completed_moves
          /\ (mqtt.pc = "insert" /\ mqtt' # mqtt)
                => /\ lock = MqttThread /\ lock' = Free
                   /\ mqtt'.log \in {mqtt.log, "exception"}]_vars

\* the loop thread has stored a completion of "1" and not yet printed its line,
\* and a caller already holds the lock and has read that entry
C18_Witness ==
    /\ mqtt.pc = "print"
    /\ lock = 1 /\ poll[1].pc = "if" /\ poll[1].request_id = "1" /\ poll[1].feedback # PyNone
    /\ inserted["1"] = 1

\* ------------------------------------------------------------------ C17
\* C17: under fair scheduling, a caller inside check_move_status returns and
\* releases the lock; a delivery waiting for the lock acquires it; a delivery past
\* the `if request_id` test returns with the lock released; and the lock is free
\* again and again, so that no thread is shut out of it for ever: whether or not a
\* completion for the polled identifier ever arrives.
C17_NoOperationBlocks ==
    /\ \A t \in Pollers : (poll[t].pc = "if") ~> (poll[t].pc = "idle" /\ lock # t)
    /\ (mqtt.pc = "acquire") ~> (mqtt.pc = "insert" /\ lock = MqttThread)
    /\ (mqtt.pc \in {"acquire", "insert", "print"})
            ~> (mqtt.pc \in {"idle", "dead"} /\ lock # MqttThread)
    /\ []<>(lock = Free)

\* a caller polling "2", of which no completion ever arrived, holds the lock and
\* found nothing, while the delivery of a completion of "1" waits for the lock
C17_Witness ==
    /\ inserted["2"] = 0
    /\ lock = 2 /\ poll[2].pc = "if" /\ poll[2].request_id = "2" /\ poll[2].feedback = PyNone
    /\ mqtt.pc = "acquire" /\ mqtt.request_id = PyStr("1")

\* ------------------------------------------------------------------ C19
\* C19: while caller 1 keeps polling "1" and no other caller polls "1", an entry
\* stored for "1" leads to caller 1 being returned the record of "1", the entry
\* gone; and a check_move_status(id) that takes the lock while an entry is stored
\* for id reads that entry and returns its record in that same call.
C19_PollingReachesCompleted ==
    /\ InStore("1") ~> (~InStore("1") /\ CompletedFor(result[1], "1"))
    /\ [][\A t \in Pollers :
            /\ (poll[t].pc = "idle" /\ poll'[t].pc = "if" /\ InStore(poll'[t].request_id))
                  => poll'[t].feedback = completed_moves[Key(poll'[t].request_id)]
            /\ (Returns(t) /\ poll[t].feedback # PyNone)
                  => /\ CompletedFor(result'[t], poll[t].request_id)
                     /\ Carries(result'[t], poll[t].feedback)]_vars

\* the one completion of "1" was recorded and its line printed, and caller 1's
\* check_move_status("1") was returned the record; every thread is outside the lock
C19_Witness ==
    /\ inserted["1"] = 1 /\ returned["1"] = 1
    /\ CompletedFor(result[1], "1")
    /\ poll[1].pc = "idle" /\ lock = Free
    /\ mqtt.pc = "idle" /\ mqtt.log = "received feedback"

====
